---------------------------- MODULE Spec2Model ----------------------------
(***************************************************************************)
(* A model of the raytracing-in-one-weekend crate: the Vec3 value type     *)
(* (src/vec3.rs), Ray (src/ray.rs), the sphere test and colour resolution  *)
(* of chapter_five, and the image emission loops of the three binaries.    *)
(*                                                                         *)
(* Numbers.  An f64 is modelled as an extended rational [n, d]:            *)
(*   d > 0          the finite value n/d, in lowest terms                  *)
(*   d = 0, n = 1   +infinity        d = 0, n = -1   -infinity             *)
(*   d = 0, n = 0   NaN                                                    *)
(* The arithmetic below follows IEEE-754 on these values (division by      *)
(* zero, inf - inf, 0 * inf, comparisons with NaN).  Rounding to 53 bits   *)
(* and the sign of zero are not represented: the operand sets are small    *)
(* dyadic numbers, on which +, - and * are exact in f64, and a quotient    *)
(* stands for the f64 nearest to it.  Square roots are taken of rational   *)
(* squares only.                                                           *)
(***************************************************************************)
EXTENDS Integers, Sequences, FiniteSets, TLC

VARIABLES
    call,       \* the call under test: operation name and operands
    pc,         \* position of the caller: "call" | "returned" | "panicked" | "rejected" | "idle"
    res,        \* what the call produced
    prog,       \* the binary that is running ("none" when a library call is under test)
    ipc,        \* position inside main: "start" | "rows" | "columns" | "exit" | "idle"
    row,        \* main's loop variable row
    column,     \* main's loop variable column
    stdout,     \* primary stream: lines written so far and the last line
    stderr      \* diagnostic stream: messages written so far and the last one

vars == <<call, pc, res, prog, ipc, row, column, stdout, stderr>>

---------------------------------------------------------------------------
(* Bounds of the operand sets.                                             *)

\* vector components of the operator calls range over -VecMax..VecMax
VecMax == 1
\* scalars range over k/2 for k in -ScalMax..ScalMax
ScalMax == 6
\* indices range over 0..MaxIndex
MaxIndex == 4
\* ray origins have x and z in -OrgMax..OrgMax
OrgMax == 1
\* ray directions have components in -DirMax..DirMax
DirMax == 1
\* sphere radii range over k/2 for k in 0..RadMax
RadMax == 2
\* ray parameters t range over k/2 for k in -TMax..TMax
TMax == 3

\* direction scale factors range over the nonzero k in -KMax..KMax
KMax == 2

---------------------------------------------------------------------------
(* f64                                                                     *)

Abs(k) == IF k < 0 THEN -k ELSE k

Sign(k) == IF k < 0 THEN -1 ELSE IF k > 0 THEN 1 ELSE 0

RECURSIVE Gcd(_, _)
Gcd(a, b) == IF b = 0 THEN a ELSE Gcd(b, a % b)

\* the value n/d in lowest terms with a positive denominator; n/0 is an
\* infinity of n's sign, 0/0 is NaN
Rat(n, d) ==
    IF d = 0 THEN [n |-> Sign(n), d |-> 0]
    ELSE LET g == Gcd(Abs(n), Abs(d))
             s == IF d < 0 THEN -1 ELSE 1
         IN  [n |-> (s * n) \div g, d |-> (s * d) \div g]

F(k) == [n |-> k, d |-> 1]

NaN == [n |-> 0, d |-> 0]

PosInf == [n |-> 1, d |-> 0]

IsNaN(x) == x.d = 0 /\ x.n = 0

IsInf(x) == x.d = 0 /\ x.n # 0

FNeg(x) == [n |-> -x.n, d |-> x.d]

FAdd(x, y) ==
    IF IsNaN(x) \/ IsNaN(y) THEN NaN
    ELSE IF IsInf(x) /\ IsInf(y) THEN (IF x.n = y.n THEN x ELSE NaN)
    ELSE IF IsInf(x) THEN x
    ELSE IF IsInf(y) THEN y
    ELSE Rat(x.n * y.d + y.n * x.d, x.d * y.d)

FSub(x, y) == FAdd(x, FNeg(y))

\* denominators are never negative, so the sign of a product is the sign of
\* its numerator: inf * 0 = 0/0 = NaN, inf * -2 = -2/0 = -inf
FMul(x, y) == Rat(x.n * y.n, x.d * y.d)

FRecip(y) ==
    IF y.d = 0 THEN (IF y.n = 0 THEN NaN ELSE F(0))
    ELSE IF y.n = 0 THEN PosInf
    ELSE Rat(y.d, y.n)

FDiv(x, y) == FMul(x, FRecip(y))

\* x > y; false when either is NaN
FGt(x, y) ==
    IF IsNaN(x) \/ IsNaN(y) THEN FALSE
    ELSE IF IsInf(x) /\ IsInf(y) THEN x.n > y.n
    ELSE x.n * y.d > y.n * x.d

IsSquare(k) == k >= 0 /\ \E r \in 0..k : r * r = k

ISqrt(k) == CHOOSE r \in 0..k : r * r = k

\* whether the model can take the square root of x: every value but a
\* finite positive non-square
HasSqrt(x) == x.d = 0 \/ x.n < 0 \/ (IsSquare(x.n) /\ IsSquare(x.d))

\* f64::sqrt
FSqrt(x) ==
    IF IsNaN(x) THEN NaN
    ELSE IF x.n < 0 THEN NaN
    ELSE IF IsInf(x) THEN x
    ELSE Rat(ISqrt(x.n), ISqrt(x.d))

\* a conversion to u8 that rounds to the nearest integer instead of truncating
FAsU8Rounding(x) ==
    IF IsNaN(x) THEN 0
    ELSE IF x.n <= 0 THEN 0
    ELSE IF IsInf(x) THEN 255
    ELSE IF (2 * x.n + x.d) \div (2 * x.d) > 255 THEN 255
    ELSE (2 * x.n + x.d) \div (2 * x.d)

\* `x as u8`: truncates toward zero and saturates; NaN becomes 0
FAsU8(x) ==
    IF IsNaN(x) THEN 0
    ELSE IF x.n <= 0 THEN 0
    ELSE IF IsInf(x) THEN 255
    ELSE IF x.n \div x.d > 255 THEN 255
    ELSE x.n \div x.d

---------------------------------------------------------------------------
(* Vec3                                                                    *)

\* Vec3::new on values already converted to f64
Vec3(x, y, z) == [x |-> x, y |-> y, z |-> z]

\* Vec3::new(i, j, k) on integers (Into<f64>)
V(i, j, k) == Vec3(F(i), F(j), F(k))

dot(self, other) ==
    FAdd(FAdd(FMul(self.x, other.x), FMul(self.y, other.y)), FMul(self.z, other.z))

\* cross with the operands of the y component exchanged (a left-handed y)
cross_left_handed_y(self, other) ==
    [x |-> FSub(FMul(self.y, other.z), FMul(self.z, other.y)),
     y |-> FSub(FMul(self.x, other.z), FMul(self.z, other.x)),
     z |-> FSub(FMul(self.x, other.y), FMul(self.y, other.x))]

cross(self, other) ==
    [x |-> FSub(FMul(self.y, other.z), FMul(self.z, other.y)),
     y |-> FSub(FMul(self.z, other.x), FMul(self.x, other.z)),
     z |-> FSub(FMul(self.x, other.y), FMul(self.y, other.x))]

length_squared(self) ==
    FAdd(FAdd(FMul(self.x, self.x), FMul(self.y, self.y)), FMul(self.z, self.z))

length(self) == FSqrt(length_squared(self))

\* the outcome of a call: a vector, a number, a boolean, a panic, or the
\* compiler's rejection of a call no impl matches
RetVec(v) == [k |-> "vec", v |-> v]

RetNum(x) == [k |-> "f64", x |-> x]

RetBool(b) == [k |-> "bool", b |-> b]

Panic(msg) == [k |-> "panic", msg |-> msg]

NoImpl == [k |-> "noimpl"]

NoRes == [k |-> "none"]

\* index with an out-of-range index clamped to the last component
index_clamped(self, i) ==
    CASE i = 0 -> RetNum(self.x)
      [] i = 1 -> RetNum(self.y)
      [] OTHER -> RetNum(self.z)

\* impl Index<usize> for Vec3
index(self, i) ==
    CASE i = 0 -> RetNum(self.x)
      [] i = 1 -> RetNum(self.y)
      [] i = 2 -> RetNum(self.z)
      [] OTHER -> Panic("Expect index between 0 and 2")

\* impl<T> Add<T> for Vec3
add_scalar(self, scalar) ==
    [x |-> FAdd(self.x, scalar), y |-> FAdd(self.y, scalar), z |-> FAdd(self.z, scalar)]

\* impl Add for Vec3
add(self, other) ==
    [x |-> FAdd(self.x, other.x), y |-> FAdd(self.y, other.y), z |-> FAdd(self.z, other.z)]

\* f64 + Vec3 written with the body of the Sub impl
f64_add_as_sub(self, other) ==
    [x |-> FSub(other.x, self), y |-> FSub(other.y, self), z |-> FSub(other.z, self)]

\* impl Add<Vec3> for f64: other + self
f64_add(self, other) == add_scalar(other, self)

\* impl<T> Sub<T> for Vec3
sub_scalar(self, scalar) ==
    [x |-> FSub(self.x, scalar), y |-> FSub(self.y, scalar), z |-> FSub(self.z, scalar)]

\* impl Sub for Vec3
sub(self, other) ==
    [x |-> FSub(self.x, other.x), y |-> FSub(self.y, other.y), z |-> FSub(self.z, other.z)]

\* f64 - Vec3 as the scalar minus each component
f64_sub_directional(self, other) ==
    [x |-> FSub(self, other.x), y |-> FSub(self, other.y), z |-> FSub(self, other.z)]

\* impl Sub<Vec3> for f64: other - self
f64_sub(self, other) == sub_scalar(other, self)

\* impl<T> Mul<T> for Vec3
mul_scalar(self, scalar) ==
    [x |-> FMul(self.x, scalar), y |-> FMul(self.y, scalar), z |-> FMul(self.z, scalar)]

\* impl Mul for Vec3
mul(self, other) ==
    [x |-> FMul(self.x, other.x), y |-> FMul(self.y, other.y), z |-> FMul(self.z, other.z)]

\* impl Mul<Vec3> for f64: other * self
f64_mul(self, other) == mul_scalar(other, self)

\* Vec3 / T written with the body of the Mul impl
div_scalar_as_mul(self, scalar) ==
    [x |-> FMul(self.x, scalar), y |-> FMul(self.y, scalar), z |-> FMul(self.z, scalar)]

\* impl<T> Div<T> for Vec3
div_scalar(self, scalar) ==
    [x |-> FDiv(self.x, scalar), y |-> FDiv(self.y, scalar), z |-> FDiv(self.z, scalar)]

\* impl Div for Vec3
div(self, other) ==
    [x |-> FDiv(self.x, other.x), y |-> FDiv(self.y, other.y), z |-> FDiv(self.z, other.z)]

normalized(self) == div_scalar(self, length(self))

---------------------------------------------------------------------------
(* Ray, hit_sphere, ray_color, write_color                                 *)

\* Ray::new
Ray(origin, direction) == [origin |-> origin, direction |-> direction]

\* at with origin and direction exchanged
at_from_direction(self, t) == add(self.direction, mul_scalar(self.origin, t))

\* Ray::at
at(self, t) == add(self.origin, mul_scalar(self.direction, t))

\* the quadratic's discriminant as hit_sphere computes it
discriminant(center, radius, ray) ==
    LET oc == sub(ray.origin, center)
        a  == length_squared(ray.direction)
        b  == FMul(F(2), dot(oc, ray.direction))
        c  == FSub(length_squared(oc), FMul(radius, radius))
    IN  FSub(FMul(b, b), FMul(FMul(F(4), a), c))

\* hit_sphere with a boundary-inclusive test: a tangent ray counts as a hit
hit_sphere_inclusive(center, radius, ray) ==
    LET disc == discriminant(center, radius, ray)
    IN  FGt(disc, F(0)) \/ disc = F(0)

\* hit_sphere accepting only spheres on the forward side of the ray (b < 0)
hit_sphere_forward(center, radius, ray) ==
    /\ FGt(discriminant(center, radius, ray), F(0))
    /\ FGt(F(0), dot(sub(ray.origin, center), ray.direction))

hit_sphere(center, radius, ray) == FGt(discriminant(center, radius, ray), F(0))

\* the sphere ray_color tests
SphereCenter == V(0, 0, -1)

SphereRadius == Rat(1, 2)

\* ray_color with the two ends of the gradient exchanged
ray_color_ends_swapped(ray) ==
    IF hit_sphere(SphereCenter, SphereRadius, ray) THEN V(1, 0, 0)
    ELSE LET unit_direction == normalized(ray.direction)
             t == FMul(Rat(1, 2), FAdd(unit_direction.y, F(1)))
         IN  add(f64_mul(t, V(1, 1, 1)),
                 f64_mul(FSub(F(1), t), Vec3(Rat(1, 2), Rat(7, 10), F(1))))

ray_color(ray) ==
    IF hit_sphere(SphereCenter, SphereRadius, ray) THEN V(1, 0, 0)
    ELSE LET unit_direction == normalized(ray.direction)
             t == FMul(Rat(1, 2), FAdd(unit_direction.y, F(1)))
         IN  add(f64_mul(FSub(F(1), t), V(1, 1, 1)),
                 f64_mul(t, Vec3(Rat(1, 2), Rat(7, 10), F(1))))

\* the three integers write_color prints
write_color(color) ==
    <<FAsU8(FMul(index(color, 0).x, Rat(25599, 100))),
      FAsU8(FMul(index(color, 1).x, Rat(25599, 100))),
      FAsU8(FMul(index(color, 2).x, Rat(25599, 100)))>>

---------------------------------------------------------------------------
(* Calls of the library and of chapter_five's functions, one at a time.    *)
(* Init draws the operation and its operands; the operation's action       *)
(* applies it.                                                             *)

\* the vectors the crate's tests use
TestVecs == {V(0, 2, 3), V(2, 3, 4), V(5, 6, 7), V(9, 2, 7), V(4, 8, 10), V(3, 4, 0)}

Vecs == {V(i, j, k) : i, j, k \in -VecMax..VecMax} \cup TestVecs

Scalars == {Rat(k, 2) : k \in -ScalMax..ScalMax}

Indices == 0..MaxIndex

Origins == {V(i, 0, k) : i, k \in -OrgMax..OrgMax} \cup {V(2, 3, 4)}

Dirs == {V(i, j, k) : i, j, k \in -DirMax..DirMax}

Centers == {V(0, 0, -1), V(1, 0, 0), V(0, 0, 0)}

Radii == {Rat(k, 2) : k \in 0..RadMax}

Ts == {Rat(k, 2) : k \in -TMax..TMax}

Zero3 == V(0, 0, 0)

\* a call: a, b, c are vector operands, s a scalar operand, i an index
Call(op, a, b, c, s, i) == [op |-> op, a |-> a, b |-> b, c |-> c, s |-> s, i |-> i]

NoCall == Call("none", Zero3, Zero3, Zero3, F(0), 0)

VecScalarOps == {"add_scalar", "f64_add", "sub_scalar", "f64_sub",
                 "mul_scalar", "f64_mul", "div_scalar", "f64_div"}

VecVecOps == {"add", "sub", "mul", "div", "dot", "cross"}

\* the calls under test: an operation with operands from its sets
IsCall(c) ==
    \/ \E a \in Vecs, i \in Indices : c = Call("index", a, Zero3, Zero3, F(0), i)
    \/ \E op \in VecScalarOps, a \in Vecs, s \in Scalars :
          c = Call(op, a, Zero3, Zero3, s, 0)
    \/ \E op \in VecVecOps, a \in Vecs, b \in Vecs : c = Call(op, a, b, Zero3, F(0), 0)
    \/ \E a \in Vecs : c = Call("length_squared", a, Zero3, Zero3, F(0), 0)
    \/ \E a \in Vecs :
          /\ HasSqrt(length_squared(a))
          /\ c = Call("normalized", a, Zero3, Zero3, F(0), 0)
    \/ \E a \in Origins, b \in Dirs, s \in Ts : c = Call("at", a, b, Zero3, s, 0)
    \/ \E a \in Origins, b \in Dirs, ce \in Centers, s \in Radii :
          c = Call("hit_sphere", a, b, ce, s, 0)
    \/ \E a \in Origins, b \in Dirs :
          /\ hit_sphere(SphereCenter, SphereRadius, Ray(a, b)) \/ HasSqrt(length_squared(b))
          /\ c = Call("ray_color", a, b, Zero3, F(0), 0)

ImageIdle ==
    /\ prog = "none" /\ ipc = "idle" /\ row = 0 /\ column = 0
    /\ stdout = [lines |-> 0, pixels |-> 0, last |-> [kind |-> "none"]]
    /\ stderr = [messages |-> 0, last |-> [kind |-> "none"]]

InitCalls ==
    /\ IsCall(call)
    /\ pc = "call"
    /\ res = NoRes
    /\ ImageIdle

\* the caller's position once the call has produced r
After(r) ==
    CASE r.k = "panic"  -> "panicked"
      [] r.k = "noimpl" -> "rejected"
      [] OTHER          -> "returned"

Return(op, r) ==
    /\ pc = "call"
    /\ call.op = op
    /\ res' = r
    /\ pc' = After(r)
    /\ UNCHANGED <<call, prog, ipc, row, column, stdout, stderr>>

IndexCall == Return("index", index(call.a, call.i))

AddScalarCall == Return("add_scalar", RetVec(add_scalar(call.a, call.s)))

F64AddCall == Return("f64_add", RetVec(f64_add(call.s, call.a)))

SubScalarCall == Return("sub_scalar", RetVec(sub_scalar(call.a, call.s)))

F64SubCall == Return("f64_sub", RetVec(f64_sub(call.s, call.a)))

MulScalarCall == Return("mul_scalar", RetVec(mul_scalar(call.a, call.s)))

F64MulCall == Return("f64_mul", RetVec(f64_mul(call.s, call.a)))

DivScalarCall == Return("div_scalar", RetVec(div_scalar(call.a, call.s)))

\* f64 / Vec3: the crate has no impl Div<Vec3> for f64, the call does not compile
F64DivCall == Return("f64_div", NoImpl)

AddCall == Return("add", RetVec(add(call.a, call.b)))

SubCall == Return("sub", RetVec(sub(call.a, call.b)))

MulCall == Return("mul", RetVec(mul(call.a, call.b)))

DivCall == Return("div", RetVec(div(call.a, call.b)))

DotCall == Return("dot", RetNum(dot(call.a, call.b)))

CrossCall == Return("cross", RetVec(cross(call.a, call.b)))

LengthSquaredCall == Return("length_squared", RetNum(length_squared(call.a)))

NormalizedCall == Return("normalized", RetVec(normalized(call.a)))

AtCall == Return("at", RetVec(at(Ray(call.a, call.b), call.s)))

HitSphereCall == Return("hit_sphere", RetBool(hit_sphere(call.c, call.s, Ray(call.a, call.b))))

RayColorCall == Return("ray_color", RetVec(ray_color(Ray(call.a, call.b))))

NextCalls ==
    \/ IndexCall
    \/ AddScalarCall \/ F64AddCall
    \/ SubScalarCall \/ F64SubCall
    \/ MulScalarCall \/ F64MulCall
    \/ DivScalarCall \/ F64DivCall
    \/ AddCall \/ SubCall \/ MulCall \/ DivCall
    \/ DotCall \/ CrossCall
    \/ LengthSquaredCall \/ NormalizedCall
    \/ AtCall \/ HitSphereCall \/ RayColorCall

Spec == InitCalls /\ [][NextCalls]_vars

---------------------------------------------------------------------------
(* The image emission loops: main of chapter_two, chapter_three and        *)
(* chapter_five.  stdout and stderr keep a count of what was written and   *)
(* the last thing written.                                                 *)

Progs == {"chapter_two", "chapter_three", "chapter_five"}

\* `x as i32` on a value within i32's range: truncation toward zero
FAsI32(x) == IF x.n >= 0 THEN x.n \div x.d ELSE -((-x.n) \div x.d)

\* chapter_five: let aspect_ratio = 16.0 / 9.0
aspect_ratio == FDiv(F(16), F(9))

Width(p) == IF p = "chapter_five" THEN 400 ELSE 256

Height(p) ==
    IF p = "chapter_five" THEN FAsI32(FDiv(F(Width(p)), aspect_ratio)) ELSE 256

\* chapter_five's camera
viewport_height == F(2)

viewport_width == FMul(aspect_ratio, viewport_height)

focal_length == F(1)

origin == V(0, 0, 0)

horizontal == Vec3(viewport_width, F(0), F(0))

vertical == Vec3(F(0), viewport_height, F(0))

lower_left_corner ==
    sub(sub(sub(origin, div_scalar(horizontal, F(2))), div_scalar(vertical, F(2))),
        Vec3(F(0), F(0), focal_length))

\* chapter_five: the ray main shoots through pixel (column, row)
PixelRay(p, r, c) ==
    LET u == FDiv(F(c), F(Width(p) - 1))
        v == FDiv(F(r), F(Height(p) - 1))
    IN  Ray(origin,
            sub(add(add(lower_left_corner, f64_mul(u, horizontal)), f64_mul(v, vertical)),
                origin))

\* chapter_two: the three integers main prints for pixel (column, row)
PixelTwo(p, r, c) ==
    LET red   == FDiv(F(c), F(Width(p) - 1))
        green == FDiv(F(r), F(Height(p) - 1))
        blue  == Rat(1, 4)
    IN  <<FAsU8(FMul(red, Rat(25599, 100))),
          FAsU8(FMul(green, Rat(25599, 100))),
          FAsU8(FMul(blue, Rat(25599, 100)))>>

\* chapter_three: the same colour, built as a Vec3 and printed by write_color
PixelThree(p, r, c) ==
    write_color(Vec3(FDiv(F(c), F(Width(p) - 1)), FDiv(F(r), F(Height(p) - 1)), Rat(1, 4)))

\* The line written for pixel (column, row).  chapter_five prints
\* write_color(ray_color(ray)); the line records the ray, the colour of
\* which is a function of the ray alone (its evaluation on these operands
\* needs integers wider than 32 bits).
PixelLine(p, r, c) ==
    CASE p = "chapter_two"   -> [kind |-> "pixel", row |-> r, column |-> c,
                                 rgb |-> PixelTwo(p, r, c)]
      [] p = "chapter_three" -> [kind |-> "pixel", row |-> r, column |-> c,
                                 rgb |-> PixelThree(p, r, c)]
      [] p = "chapter_five"  -> [kind |-> "pixel", row |-> r, column |-> c,
                                 ray |-> PixelRay(p, r, c)]

HeaderLine(p) == [kind |-> "header", magic |-> "P3", width |-> Width(p),
                  height |-> Height(p), maxval |-> 255]

CallIdle == call = NoCall /\ pc = "idle" /\ res = NoRes

InitImage ==
    /\ prog \in Progs
    /\ ipc = "start"
    /\ row = 0
    /\ column = 0
    /\ stdout = [lines |-> 0, pixels |-> 0, last |-> [kind |-> "none"]]
    /\ stderr = [messages |-> 0, last |-> [kind |-> "none"]]
    /\ CallIdle

\* println!("P3\n{} {}\n255", width, height); the row iterator (0..height).rev()
\* is created with nothing taken from it: row holds the bound of what is left
WriteHeader ==
    /\ ipc = "start"
    /\ stdout' = [lines |-> stdout.lines + 3, pixels |-> stdout.pixels,
                  last |-> HeaderLine(prog)]
    /\ row' = Height(prog)
    /\ ipc' = "rows"
    /\ UNCHANGED <<call, pc, res, prog, column, stderr>>

\* NextRow reporting the rows left including the one it starts (height..1)
NextRowReportsCount ==
    /\ ipc = "rows"
    /\ row > 0
    /\ row' = row - 1
    /\ stderr' = [messages |-> stderr.messages + 1,
                  last |-> [kind |-> "scanlines", remaining |-> row]]
    /\ column' = 0
    /\ ipc' = "columns"
    /\ UNCHANGED <<call, pc, res, prog, stdout>>

\* the row iterator yields the next row: eprint!("\rScanlines remaining: {}", row),
\* and the column iterator 0..width is created
NextRow ==
    /\ ipc = "rows"
    /\ row > 0
    /\ row' = row - 1
    /\ stderr' = [messages |-> stderr.messages + 1,
                  last |-> [kind |-> "scanlines", remaining |-> row - 1]]
    /\ column' = 0
    /\ ipc' = "columns"
    /\ UNCHANGED <<call, pc, res, prog, stdout>>

\* WritePixel with the loop variables passed in the wrong order
WritePixelTransposed ==
    /\ ipc = "columns"
    /\ column < Width(prog)
    /\ stdout' = [lines |-> stdout.lines + 1, pixels |-> stdout.pixels + 1,
                  last |-> PixelLine(prog, column, row)]
    /\ column' = column + 1
    /\ UNCHANGED <<call, pc, res, prog, ipc, row, stderr>>

\* the column iterator yields the next column: the pixel's line is printed
WritePixel ==
    /\ ipc = "columns"
    /\ column < Width(prog)
    /\ stdout' = [lines |-> stdout.lines + 1, pixels |-> stdout.pixels + 1,
                  last |-> PixelLine(prog, row, column)]
    /\ column' = column + 1
    /\ UNCHANGED <<call, pc, res, prog, ipc, row, stderr>>

\* the column iterator is exhausted
EndRow ==
    /\ ipc = "columns"
    /\ column >= Width(prog)
    /\ ipc' = "rows"
    /\ UNCHANGED <<call, pc, res, prog, row, column, stdout, stderr>>

\* the row iterator is exhausted: eprintln!("\nDone."), and main returns
Done ==
    /\ ipc = "rows"
    /\ row <= 0
    /\ stderr' = [messages |-> stderr.messages + 1, last |-> [kind |-> "done"]]
    /\ ipc' = "exit"
    /\ UNCHANGED <<call, pc, res, prog, row, column, stdout>>

NextImage == WriteHeader \/ NextRow \/ WritePixel \/ EndRow \/ Done

SpecImage == InitImage /\ [][NextImage]_vars

---------------------------------------------------------------------------
(* Properties.  The expected values are computed in integer arithmetic on  *)
(* the operands, not with the operators above: Twice(x) is 2x for an       *)
(* operand x that is a multiple of 1/2.                                    *)

Twice(x) == (2 * x.n) \div x.d

Applied(op) == call.op = op /\ pc # "call"

\* The quadratic of a ray (origin o, direction d) and a sphere (center c,
\* radius r), every length doubled: this multiplies a, b and c by 4 (and
\* the discriminant by 16) and keeps every sign.
QuadAOf(d) ==
    Twice(d.x) * Twice(d.x) + Twice(d.y) * Twice(d.y) + Twice(d.z) * Twice(d.z)

QuadBOf(o, d, c) ==
    2 * ((Twice(o.x) - Twice(c.x)) * Twice(d.x)
         + (Twice(o.y) - Twice(c.y)) * Twice(d.y)
         + (Twice(o.z) - Twice(c.z)) * Twice(d.z))

QuadCOf(o, c, r) ==
    (Twice(o.x) - Twice(c.x)) * (Twice(o.x) - Twice(c.x))
    + (Twice(o.y) - Twice(c.y)) * (Twice(o.y) - Twice(c.y))
    + (Twice(o.z) - Twice(c.z)) * (Twice(o.z) - Twice(c.z))
    - Twice(r) * Twice(r)

DiscOf(o, d, c, r) ==
    QuadBOf(o, d, c) * QuadBOf(o, d, c) - 4 * QuadAOf(d) * QuadCOf(o, c, r)

\* those of a hit_sphere call: ray (a, b), sphere (c, s)
QuadA == QuadAOf(call.b)

QuadB == QuadBOf(call.a, call.b, call.c)

QuadC == QuadCOf(call.a, call.c, call.s)

QuadDisc == DiscOf(call.a, call.b, call.c, call.s)

HalfLineMeetsSphere ==
    IF QuadA = 0 THEN QuadC = 0
    ELSE QuadDisc >= 0 /\ (QuadB <= 0 \/ QuadC <= 0)

UnitSphereFromOrigin ==
    /\ Applied("hit_sphere")
    /\ call.c = V(0, 0, -1)
    /\ call.s = Rat(1, 2)
    /\ call.a = V(0, 0, 0)

\* C2: for the sphere (0,0,-1), 0.5 and a ray from (0,0,0): direction
\* (0,0,-1) is a hit, and every ray whose half-line t >= 0 contains no point
\* of the sphere is no hit.
C2_AwayRaysMiss ==
    UnitSphereFromOrigin =>
        /\ (call.b = V(0, 0, -1) => res.b = TRUE)
        /\ (~HalfLineMeetsSphere => res.b = FALSE)

\* C3: index 0, 1, 2 returns x, y, z; every other index panics with
\* "Expect index between 0 and 2"; no other operation panics.
C3_IndexOrPanic ==
    /\ Applied("index") =>
          /\ (call.i = 0 => res.k = "f64" /\ res.x = call.a.x)
          /\ (call.i = 1 => res.k = "f64" /\ res.x = call.a.y)
          /\ (call.i = 2 => res.k = "f64" /\ res.x = call.a.z)
          /\ (call.i > 2 =>
                /\ res.k = "panic"
                /\ res.msg = "Expect index between 0 and 2"
                /\ pc = "panicked")
    /\ (pc = "panicked" \/ res.k = "panic") => (call.op = "index" /\ call.i > 2)

\* v[3] was evaluated and panicked
C3_Witness ==
    /\ Applied("index")
    /\ call.i = 3
    /\ call.a = V(0, 2, 3)
    /\ pc = "panicked"

\* main runs to its end: a sequential program takes its next step
SpecImageFair == SpecImage /\ WF_vars(NextImage)

\* C4: the header's three lines come first; then one line per pixel, each
\* pixel once, in row-major order from the top row: the k-th pixel line is
\* that of row height-1 - (k-1) \div width and column (k-1) % width, and
\* width*height pixel lines have been written when main returns.
C4_RowMajorFromTop ==
    LET w == Width(prog)
        h == Height(prog)
    IN  prog \in Progs =>
          /\ (ipc = "start" => stdout.lines = 0 /\ stdout.pixels = 0)
          /\ (ipc # "start" => stdout.lines = 3 + stdout.pixels)
          /\ (stdout.pixels = 0 /\ ipc # "start" => stdout.last = HeaderLine(prog))
          /\ (stdout.pixels > 0 =>
                /\ stdout.last.kind = "pixel"
                /\ stdout.last.row = h - 1 - (stdout.pixels - 1) \div w
                /\ stdout.last.column = (stdout.pixels - 1) % w)
          /\ (ipc = "exit" => stdout.pixels = w * h)

\* chapter_five has written its last pixel line: row 0, column width-1
C4_Witness ==
    /\ prog = "chapter_five"
    /\ ipc = "exit"
    /\ stdout.pixels = 400 * 225
    /\ stdout.last.kind = "pixel"
    /\ stdout.last.row = 0
    /\ stdout.last.column = 399

\* C5: in the 256x256 gradient image the line of internal column 0, row 0
\* (the first pixel of the last emitted row, image position (0,255)) is
\* 0 0 63, and the line of internal column 255, row 255 (the last pixel of
\* the first emitted row, image position (255,0)) is 255 255 63.
C5_GradientCorners ==
    (prog \in {"chapter_two", "chapter_three"} /\ stdout.pixels > 0) =>
        /\ (stdout.last.column = 0 /\ stdout.last.row = 0 =>
              /\ stdout.last.rgb = <<0, 0, 63>>
              /\ stdout.pixels = 255 * 256 + 1)
        /\ (stdout.last.column = 255 /\ stdout.last.row = 255 =>
              /\ stdout.last.rgb = <<255, 255, 63>>
              /\ stdout.pixels = 256)
        /\ (stdout.pixels = 255 * 256 + 1 => stdout.last.rgb = <<0, 0, 63>>)
        /\ (stdout.pixels = 256 => stdout.last.rgb = <<255, 255, 63>>)

\* chapter_two has written the bottom-left pixel's line
C5_Witness ==
    /\ prog = "chapter_two"
    /\ stdout.pixels = 255 * 256 + 1
    /\ stdout.last.kind = "pixel"
    /\ stdout.last.column = 0
    /\ stdout.last.row = 0
    /\ stdout.last.rgb = <<0, 0, 63>>

\* the scalar call.s combined with one component x of the vector operand
Sum(x) == Rat(Twice(x) + Twice(call.s), 2)

Difference(x) == Rat(Twice(x) - Twice(call.s), 2)

ReverseDifference(x) == Rat(Twice(call.s) - Twice(x), 2)

Product(x) == Rat(Twice(x) * Twice(call.s), 4)

\* x / s; x / 0 is an infinity of x's sign, 0 / 0 is NaN
Quotient(x) == Rat(Twice(x), Twice(call.s))

Each3(Op(_), v) == [x |-> Op(v.x), y |-> Op(v.y), z |-> Op(v.z)]

\* C6: s + v and v + s are both the vector with s added to every component,
\* s * v and v * s both the vector with every component multiplied by s.
C6_ScalarAddMulCommute ==
    /\ (Applied("add_scalar") \/ Applied("f64_add")) =>
          res.k = "vec" /\ res.v = Each3(Sum, call.a)
    /\ (Applied("mul_scalar") \/ Applied("f64_mul")) =>
          res.k = "vec" /\ res.v = Each3(Product, call.a)
    /\ Applied("f64_add") => res.v = add_scalar(call.a, call.s)
    /\ Applied("f64_mul") => res.v = mul_scalar(call.a, call.s)

\* 3.0 + (0,2,3) was evaluated and gave (3,5,6)
C6_Witness ==
    /\ Applied("f64_add")
    /\ call.s = F(3)
    /\ call.a = V(0, 2, 3)
    /\ res.v = V(3, 5, 6)

\* C7: s - v is the vector (v.x - s, v.y - s, v.z - s), the same as v - s;
\* it is the negation of v - s only where v - s is the zero vector.
C7_ScalarFirstSubIsVectorFirst ==
    Applied("f64_sub") =>
        /\ res.k = "vec"
        /\ res.v = Each3(Difference, call.a)
        /\ res.v = sub_scalar(call.a, call.s)
        /\ (res.v = Each3(ReverseDifference, call.a)) <=> (res.v = Zero3)

\* 3.0 - (0,2,3) was evaluated and gave (-3,-1,0)
C7_Witness ==
    /\ Applied("f64_sub")
    /\ call.s = F(3)
    /\ call.a = V(0, 2, 3)
    /\ res.v = V(-3, -1, 0)

\* C8 as stated: each of add, subtract, multiply, divide is supported in
\* both operand orders and returns a vector.
C8_BothOrderingsSupported ==
    \A op \in VecScalarOps : Applied(op) => pc = "returned" /\ res.k = "vec"

\* C8 amended: add, subtract and multiply are supported in both operand
\* orders and divide as vector / scalar, each combining every component
\* with the scalar; scalar / vector has no impl.
C8_SupportedOrderingsBroadcast ==
    /\ (Applied("add_scalar") \/ Applied("f64_add")) =>
          pc = "returned" /\ res.k = "vec" /\ res.v = Each3(Sum, call.a)
    /\ (Applied("sub_scalar") \/ Applied("f64_sub")) =>
          pc = "returned" /\ res.k = "vec" /\ res.v = Each3(Difference, call.a)
    /\ (Applied("mul_scalar") \/ Applied("f64_mul")) =>
          pc = "returned" /\ res.k = "vec" /\ res.v = Each3(Product, call.a)
    /\ Applied("div_scalar") =>
          pc = "returned" /\ res.k = "vec" /\ res.v = Each3(Quotient, call.a)
    /\ Applied("f64_div") => pc = "rejected" /\ res.k = "noimpl"

\* (0,2,3) / 2 was evaluated and gave (0,1,1.5)
C8_Witness ==
    /\ Applied("div_scalar")
    /\ call.s = F(2)
    /\ call.a = V(0, 2, 3)
    /\ res.v = Vec3(F(0), F(1), Rat(3, 2))

\* C9: cross is (y1*z2 - z1*y2, z1*x2 - x1*z2, x1*y2 - y1*x2), and
\* v.cross(w) is the component-wise negation of w.cross(v);
\* (2,3,4).cross((5,6,7)) = (-3,6,-3).
C9_CrossRightHandedAntiCommutative ==
    Applied("cross") =>
        LET v == call.a
            w == call.b
            back == cross(w, v)
        IN  /\ res.k = "vec"
            /\ res.v = V(v.y.n * w.z.n - v.z.n * w.y.n,
                         v.z.n * w.x.n - v.x.n * w.z.n,
                         v.x.n * w.y.n - v.y.n * w.x.n)
            /\ res.v = Vec3(FNeg(back.x), FNeg(back.y), FNeg(back.z))
            /\ (v = V(2, 3, 4) /\ w = V(5, 6, 7) => res.v = V(-3, 6, -3))

\* (2,3,4).cross((5,6,7)) was evaluated and gave (-3,6,-3)
C9_Witness ==
    /\ Applied("cross")
    /\ call.a = V(2, 3, 4)
    /\ call.b = V(5, 6, 7)
    /\ res.v = V(-3, 6, -3)

\* the gradient colour of a direction d with integer components: with
\* L = |d| and t = (d.y/L + 1)/2, (1-t)*(1,1,1) + t*(0.5,0.7,1.0) is
\* ((3L - d.y)/4L, (17L - 3 d.y)/20L, 1); for the zero direction every
\* component is NaN
Gradient(d) ==
    LET len == ISqrt(d.x.n * d.x.n + d.y.n * d.y.n + d.z.n * d.z.n)
    IN  IF len = 0 THEN Vec3(NaN, NaN, NaN)
        ELSE Vec3(Rat(3 * len - d.y.n, 4 * len), Rat(17 * len - 3 * d.y.n, 20 * len), F(1))

\* whether the ray of a ray_color call hits the sphere (0,0,-1), 0.5
RayHitsSphere == DiscOf(call.a, call.b, V(0, 0, -1), Rat(1, 2)) > 0

\* C10: ray_color returns (1,0,0) for every ray hit_sphere accepts for the
\* sphere (0,0,-1), 0.5, and for every other ray the gradient, never red.
C10_RedIffHit ==
    Applied("ray_color") =>
        /\ res.k = "vec"
        /\ (RayHitsSphere => res.v = V(1, 0, 0))
        /\ (~RayHitsSphere => res.v = Gradient(call.b) /\ res.v # V(1, 0, 0))

\* a ray straight up misses the sphere and gets the blue end of the gradient
C10_Witness ==
    /\ Applied("ray_color")
    /\ call.a = V(0, 0, 0)
    /\ call.b = V(0, 1, 0)
    /\ ~RayHitsSphere
    /\ res.v = Vec3(Rat(1, 2), Rat(7, 10), F(1))

\* what C11 says of one state: stdout holds the header and pixel lines only;
\* the k-th message on stderr is "Scanlines remaining: height-k" for k in
\* 1..height, written when (k-1)*width pixel lines are out (before the
\* pixels of its row), and the message after those is "Done.", written when
\* all width*height pixel lines are out and main is at its end.
ProgressOrder ==
    LET w == Width(prog)
        h == Height(prog)
    IN  prog \in Progs =>
          /\ stdout.last.kind \in {"none", "header", "pixel"}
          /\ stderr.last.kind \in {"none", "scanlines", "done"}
          /\ (stderr.messages = 0 <=> stderr.last.kind = "none")
          /\ (stderr.messages = 0 => stdout.pixels = 0)
          /\ (stderr.messages \in 1..h =>
                /\ stderr.last.kind = "scanlines"
                /\ stderr.last.remaining = h - stderr.messages
                /\ ipc \in {"rows", "columns"}
                /\ stdout.pixels >= (stderr.messages - 1) * w
                /\ stdout.pixels <= stderr.messages * w
                /\ (stdout.pixels > (stderr.messages - 1) * w =>
                      stdout.last.row = stderr.last.remaining))
          /\ (stderr.messages > h =>
                /\ stderr.messages = h + 1
                /\ stderr.last.kind = "done"
                /\ stdout.pixels = w * h
                /\ ipc = "exit")
          /\ (ipc = "exit" => stderr.last.kind = "done")

\* whether main can take a step; WritePixel only assigns once its guard
\* holds, so it is enabled exactly when its guard is
CanStep ==
    \/ ENABLED WriteHeader
    \/ ENABLED NextRow
    \/ (ipc = "columns" /\ column < Width(prog))
    \/ ENABLED EndRow
    \/ ENABLED Done

Terminated == ipc = "exit" /\ stderr.last.kind = "done" /\ ~CanStep

\* the steps main has left: the header, per row its message, its width
\* pixels and the end of its column loop, and "Done."
StepsLeft ==
    LET w == Width(prog)
        h == Height(prog)
    IN  CASE ipc = "start"   -> h * (w + 2) + 2
          [] ipc = "rows"    -> row * (w + 2) + 1
          [] ipc = "columns" -> row * (w + 2) + (w - column) + 2
          [] OTHER           -> 0

\* C11: "Scanlines remaining: N" goes to stderr only, once per row before
\* the row's pixels, N descending from height-1 to 0; "Done." goes to
\* stderr once, after the last of the width*height pixel lines; and every
\* run ends, having written "Done.": until then a step is always possible
\* and each step leaves one step less.
C11_ProgressThenDone ==
    /\ []ProgressOrder
    /\ [](StepsLeft >= 0)
    /\ [](StepsLeft > 0 => CanStep)
    /\ [](StepsLeft = 0 => Terminated)
    /\ [][StepsLeft' = StepsLeft - 1]_vars

\* chapter_three has ended: 256 progress messages, then "Done."
C11_Witness ==
    /\ prog = "chapter_three"
    /\ ipc = "exit"
    /\ stderr.messages = 257
    /\ stderr.last.kind = "done"
    /\ stdout.pixels = 256 * 256

\* origin + direction * t on one component, operands being multiples of 1/2
PointAt(o, d) == Rat(2 * Twice(o) + Twice(d) * Twice(call.s), 4)

AtResult ==
    Applied("at") =>
        /\ pc = "returned"
        /\ res.k = "vec"
        /\ res.v = Vec3(PointAt(call.a.x, call.b.x),
                        PointAt(call.a.y, call.b.y),
                        PointAt(call.a.z, call.b.z))
        /\ (call.a = V(2, 3, 4) /\ call.b = V(0, 1, 0) /\ call.s = Rat(1, 2) =>
              res.v = Vec3(F(2), Rat(7, 2), F(4)))

\* C12: at(t) is origin + direction * t on every component, for every t
\* (negative too) and every direction (zero and non-unit too), and the ray
\* is what it was; Ray((2,3,4), (0,1,0)).at(0.5) = (2,3.5,4).
C12_AtIsOriginPlusDirectionT ==
    /\ []AtResult
    /\ [][call.op = "at" => call' = call]_vars

\* Ray((2,3,4), (0,1,0)).at(0.5) was evaluated and gave (2,3.5,4)
C12_Witness ==
    /\ Applied("at")
    /\ call.a = V(2, 3, 4)
    /\ call.b = V(0, 1, 0)
    /\ call.s = Rat(1, 2)
    /\ res.v = Vec3(F(2), Rat(7, 2), F(4))

ScaleFactors == (-KMax..KMax) \ {0}

===========================================================================
